---- MODULE Spec2Model ----
(***************************************************************************)
(* Model of update_and_publish.py: the search / score / deduplicate /      *)
(* persist pipeline (search_all), the dashboard rebuild                    *)
(* (rebuild_dashboard), the publish step (git_push) and main.              *)
(*                                                                         *)
(* Text is modelled as a sequence of characters, each character a string   *)
(* of length one; "u2013" stands for one non-ASCII character (an en dash)  *)
(* and "NL" for a line feed.  lower, strip, substring search, rsplit,      *)
(* json.dumps' escaping and re.sub's template expansion are computed on    *)
(* these sequences.                                                        *)
(***************************************************************************)
EXTENDS Integers, Sequences, FiniteSets, TLC

VARIABLES
  clock,          \* the date datetime.now() reports (a day number)
  store,          \* jobs_data.json: [kind, recs]
  html,           \* index.html: [exists, text]
  pc,             \* position of main
  existing,       \* search_all: the loaded collection
  existing_keys,  \* search_all: the key set
  new_jobs,       \* search_all: the records accepted in this run
  next_id,        \* search_all: the next id to assign
  today,          \* search_all: the run's date
  qi,             \* search_all: index of the query being processed
  results,        \* search_all: candidates of the current query still to merge
  all_jobs,       \* main: the collection search_all returned
  new_count,      \* main: the count search_all returned
  raised,         \* the exception that ended the run, "none" when none did
  rebuilt,        \* what rebuild_dashboard returned: "none", "True", "False"
  pushed,         \* what git_push returned: "none", "True", "False"
  warned,         \* rebuild_dashboard logged its WARNING in this run
  refJobs,        \* history: what a merge keyed on accepted records alone appends
  store0,         \* history: the store as it was when the run started
  readOk,         \* history: load_existing_data returned the file's content
  html0,          \* history: index.html as it was before rebuild_dashboard
  lastMerge,      \* history: the last candidate merged and what became of it
  runs,           \* how many times main has been started
  feed,           \* replay check: the response the feed gives to each query
  prevToday,      \* history: the date of the previous run
  arg,            \* scoring check: the arguments of calculate_fit_score
  ret             \* scoring check: its result, -1 before the call

vars == << clock, store, html, pc, existing, existing_keys, new_jobs, next_id,
           today, qi, results, all_jobs, new_count, raised, rebuilt, pushed,
           warned, refJobs, store0, readOk, html0, lastMerge, runs, feed, prevToday,
           arg, ret >>

(***************************************************************************)
(* Bounds of the model.                                                    *)
(***************************************************************************)
\* how many of the queries of SEARCH_QUERIES a run issues (the first ones)
NumQueries == 2
\* the longest response of the feed, in items
MaxResults == 2
\* the last day of the clock
MaxDay == 2
\* how many times main is started
MaxRuns == 2

(***************************************************************************)
(* Text.                                                                   *)
(***************************************************************************)
LowerMap ==
  [ A |-> "a", B |-> "b", C |-> "c", D |-> "d", E |-> "e", F |-> "f",
    G |-> "g", H |-> "h", I |-> "i", J |-> "j", K |-> "k", L |-> "l",
    M |-> "m", N |-> "n", O |-> "o", P |-> "p", Q |-> "q", R |-> "r",
    S |-> "s", T |-> "t", U |-> "u", V |-> "v", W |-> "w", X |-> "x",
    Y |-> "y", Z |-> "z" ]

\* str.lower()
lower(s) ==
  [i \in 1..Len(s) |-> IF s[i] \in DOMAIN LowerMap THEN LowerMap[s[i]] ELSE s[i]]

Whitespace == {" ", "NL", "TAB"}

RECURSIVE lstrip(_)
lstrip(s) ==
  IF s # <<>> /\ Head(s) \in Whitespace THEN lstrip(Tail(s)) ELSE s

RECURSIVE rstrip(_)
rstrip(s) ==
  IF s # <<>> /\ s[Len(s)] \in Whitespace
  THEN rstrip(SubSeq(s, 1, Len(s) - 1))
  ELSE s

\* str.strip()
strip(s) == rstrip(lstrip(s))

\* the positions at which sub occurs in s
Occurrences(sub, s) ==
  {i \in 1..(Len(s) - Len(sub) + 1) : SubSeq(s, i, i + Len(sub) - 1) = sub}

\* sub in s
Contains(sub, s) == Occurrences(sub, s) # {}

Max(S) == CHOOSE x \in S : \A y \in S : y <= x

Range(f) == { f[i] : i \in DOMAIN f }

\* s.rsplit(sep, 1)
rsplit1(s, sep) ==
  IF Occurrences(sep, s) = {}
  THEN << s >>
  ELSE LET i == Max(Occurrences(sep, s))
       IN  << SubSeq(s, 1, i - 1), SubSeq(s, i + Len(sep), Len(s)) >>

(***************************************************************************)
(* Configuration.                                                          *)
(***************************************************************************)
SEARCH_QUERIES ==
  << "CFO fintech remote",
     "VP Finance fintech remote",
     "VP Finance technology remote",
     "Senior Director Financial Systems remote",
     "Head of Finance fintech remote",
     "Finance Transformation Director remote",
     "Director Finance Technology remote",
     "VP Financial Systems remote",
     "Head Financial Planning Analysis remote" >>

TARGET_COMPANIES ==
  << <<"S", "t", "r", "i", "p", "e">>,
     <<"P", "a", "y", "P", "a", "l">>,
     <<"B", "l", "o", "c", "k">>,
     <<"B", "r", "e", "x">>,
     <<"R", "a", "m", "p">>,
     <<"C", "h", "i", "m", "e">>,
     <<"P", "l", "a", "i", "d">>,
     <<"M", "a", "r", "q", "e", "t", "a">>,
     <<"A", "d", "y", "e", "n">>,
     <<"W", "i", "s", "e">>,
     <<"S", "n", "o", "w", "f", "l", "a", "k", "e">>,
     <<"D", "a", "t", "a", "b", "r", "i", "c", "k", "s">>,
     <<"S", "e", "r", "v", "i", "c", "e", "N", "o", "w">>,
     <<"S", "a", "l", "e", "s", "f", "o", "r", "c", "e">>,
     <<"W", "o", "r", "k", "d", "a", "y">>,
     <<"U", "i", "P", "a", "t", "h">>,
     <<"P", "a", "l", "a", "n", "t", "i", "r">>,
     <<"R", "o", "b", "i", "n", "h", "o", "o", "d">>,
     <<"S", "o", "F", "i">>,
     <<"C", "o", "i", "n", "b", "a", "s", "e">>,
     <<"I", "n", "t", "u", "i", "t">>,
     <<"I", "n", "s", "t", "a", "c", "a", "r", "t">>,
     <<"A", "f", "f", "i", "r", "m">> >>

TITLE_KEYWORDS ==
  << [kw |-> <<"v", "p">>, pts |-> 15],
     [kw |-> <<"v", "i", "c", "e", " ", "p", "r", "e", "s", "i", "d", "e", "n", "t">>, pts |-> 15],
     [kw |-> <<"h", "e", "a", "d">>, pts |-> 14],
     [kw |-> <<"s", "e", "n", "i", "o", "r", " ", "d", "i", "r", "e", "c", "t", "o", "r">>, pts |-> 13],
     [kw |-> <<"d", "i", "r", "e", "c", "t", "o", "r">>, pts |-> 10],
     [kw |-> <<"c", "f", "o">>, pts |-> 18],
     [kw |-> <<"c", "p", "o">>, pts |-> 15],
     [kw |-> <<"c", "h", "i", "e", "f">>, pts |-> 16],
     [kw |-> <<"f", "i", "n", "a", "n", "c", "e">>, pts |-> 12],
     [kw |-> <<"f", "i", "n", "a", "n", "c", "i", "a", "l">>, pts |-> 12],
     [kw |-> <<"f", "i", "n", "t", "e", "c", "h">>, pts |-> 10],
     [kw |-> <<"t", "e", "c", "h", "n", "o", "l", "o", "g", "y">>, pts |-> 8],
     [kw |-> <<"s", "y", "s", "t", "e", "m", "s">>, pts |-> 8],
     [kw |-> <<"t", "r", "a", "n", "s", "f", "o", "r", "m", "a", "t", "i", "o", "n">>, pts |-> 10],
     [kw |-> <<"s", "t", "r", "a", "t", "e", "g", "y">>, pts |-> 8],
     [kw |-> <<"e", "r", "p">>, pts |-> 10],
     [kw |-> <<"t", "r", "e", "a", "s", "u", "r", "y">>, pts |-> 8],
     [kw |-> <<"a", "c", "c", "o", "u", "n", "t", "i", "n", "g">>, pts |-> 6],
     [kw |-> <<"p", "l", "a", "n", "n", "i", "n", "g">>, pts |-> 7],
     [kw |-> <<"a", "n", "a", "l", "y", "t", "i", "c", "s">>, pts |-> 7],
     [kw |-> <<"p", "r", "o", "d", "u", "c", "t">>, pts |-> 6],
     [kw |-> <<"o", "p", "e", "r", "a", "t", "i", "o", "n", "s">>, pts |-> 6],
     [kw |-> <<"r", "i", "s", "k">>, pts |-> 5],
     [kw |-> <<"c", "o", "n", "t", "r", "o", "l", "s">>, pts |-> 5],
     [kw |-> <<"a", "u", "t", "o", "m", "a", "t", "i", "o", "n">>, pts |-> 8],
     [kw |-> <<"d", "a", "t", "a">>, pts |-> 5],
     [kw |-> <<"a", "i">>, pts |-> 8],
     [kw |-> <<"d", "i", "g", "i", "t", "a", "l">>, pts |-> 7] >>

(***************************************************************************)
(* Scorer.                                                                 *)
(***************************************************************************)
\* the loop over TITLE_KEYWORDS, from its i-th entry on
RECURSIVE KeywordLoop(_, _, _)
KeywordLoop(score, title_lower, i) ==
  IF i > Len(TITLE_KEYWORDS)
  THEN score
  ELSE KeywordLoop(
         IF Contains(TITLE_KEYWORDS[i].kw, title_lower)
         THEN score + TITLE_KEYWORDS[i].pts
         ELSE score,
         title_lower, i + 1)

\* mutant of CompanyLoop: the break is missing, every matching company adds 8
RECURSIVE CompanyLoopNoBreak(_, _, _)
CompanyLoopNoBreak(score, company_lower, i) ==
  IF i > Len(TARGET_COMPANIES)
  THEN score
  ELSE CompanyLoopNoBreak(
         IF Contains(lower(TARGET_COMPANIES[i]), company_lower)
         THEN score + 8
         ELSE score,
         company_lower, i + 1)

\* the loop over TARGET_COMPANIES, from its i-th entry on, with its break
RECURSIVE CompanyLoop(_, _, _)
CompanyLoop(score, company_lower, i) ==
  IF i > Len(TARGET_COMPANIES)
  THEN score
  ELSE IF Contains(lower(TARGET_COMPANIES[i]), company_lower)
       THEN score + 8
       ELSE CompanyLoop(score, company_lower, i + 1)

RemoteWord == <<"r", "e", "m", "o", "t", "e">>

RemoteBonus(score, loc_lower, title_lower) ==
  IF Contains(RemoteWord, loc_lower) \/ Contains(RemoteWord, title_lower)
  THEN score + 5
  ELSE score

Clamp(score) == IF score < 100 THEN score ELSE 100

calculate_fit_score(title, company, location) ==
  LET title_lower   == lower(title)
      company_lower == lower(company)
      loc_lower     == lower(location)
      s1 == KeywordLoop(40, title_lower, 1)
      s2 == CompanyLoop(s1, company_lower, 1)
      s3 == RemoteBonus(s2, loc_lower, title_lower)
  IN  Clamp(s3)

(***************************************************************************)
(* Feed client.                                                            *)
(***************************************************************************)
Unknown == <<"U", "n", "k", "n", "o", "w", "n">>

Separator == <<" ", "-", " ">>

\* the <item> elements the feed can return: title and link as sent
FeedItems ==
  { [title |-> <<"V", "P", "u2013", "C", "P", "O", " ", "-", " ", "A", "c", "m", "e">>,
     link  |-> "https://www.indeed.com/viewjob?jk=1"],
    [title |-> <<" ", "v", "p", "u2013", "c", "p", "o", " ", " ", "-", " ", " ", "A", "C", "M", "E", " ">>,
     link  |-> "https://www.indeed.com/viewjob?jk=2"],
    [title |-> <<"H", "e", "a", "d", " ", "V", "P", " ", "-", " ", "C", "F", "O", "|", "A", "c", "m", "e">>,
     link  |-> "https://www.indeed.com/viewjob?jk=3"],
    [title |-> <<"H", "e", "a", "d", " ", "V", "P", "|", "C", "F", "O", " ", "-", " ", "A", "c", "m", "e">>,
     link  |-> "https://www.indeed.com/viewjob?jk=4"] }

\* the item lists a response of the feed can hold
Responses == UNION { [1..n -> FeedItems] : n \in 0..MaxResults }

\* the body of the loop over root.findall(".//item")
ParseItem(item) ==
  LET title     == strip(item.title)
      parts     == rsplit1(title, Separator)
      job_title == strip(parts[1])
      company   == IF Len(parts) > 1 THEN strip(parts[2]) ELSE Unknown
  IN  [title |-> job_title, company |-> company, link |-> item.link,
       source |-> "indeed"]

\* search_indeed_rss: ok is FALSE when the request or the parse raises
search_indeed_rss(ok, response) ==
  IF ok THEN [i \in 1..Len(response) |-> ParseItem(response[i])] ELSE <<>>

(***************************************************************************)
(* Store.                                                                  *)
(***************************************************************************)
\* mutant of deduplicate_key: the key keeps the case of the text
deduplicate_key_CaseSensitive(title, company) ==
  strip(title) \o <<"|">> \o strip(company)

deduplicate_key(title, company) ==
  strip(lower(title)) \o <<"|">> \o strip(lower(company))

\* a record kept by hand in jobs_data.json before the first run
HandRecord ==
  [ id |-> 7,
    company |-> <<" ", "S", "t", "r", "i", "p", "e", " ">>,
    title |-> <<"C", "F", "O">>,
    location |-> "Remote", salary |-> "TBD", remote |-> "Yes",
    link |-> "https://www.indeed.com/viewjob?jk=0",
    score |-> 95,
    reason |-> << "Referred by a recruiter" >>,
    discovered |-> 0,
    source |-> "general",
    isNew |-> TRUE,
    status |-> "applied",
    notes |-> <<"o", "k", "NL">> ]

\* jobs_data.json: no file, a JSON list of records, a JSON object, or a file
\* that does not parse
StoreAbsent  == [kind |-> "absent",  recs |-> <<>>]
StoreGarbage == [kind |-> "garbage", recs |-> <<>>]
StoreObject  == [kind |-> "object",  recs |-> <<>>]
StoreList(recs) == [kind |-> "list", recs |-> recs]

\* load_existing_data: ok is FALSE when open or json.load raises
\* the value is a list of records or, for a JSON object, a dict
load_existing_data(ok) ==
  IF store.kind = "absent" THEN [type |-> "list", recs |-> <<>>]
  ELSE IF ~ok \/ store.kind = "garbage" THEN [type |-> "list", recs |-> <<>>]
  ELSE IF store.kind = "object" THEN [type |-> "dict", recs |-> <<>>]
  ELSE [type |-> "list", recs |-> store.recs]

\* the outcomes open/json.load can have on the file as it is
ReadOutcomes ==
  CASE store.kind = "absent"  -> {TRUE}
    [] store.kind = "garbage" -> {FALSE}
    [] OTHER                  -> BOOLEAN

\* mutant of KeysOf: the keys of the loaded records are not normalised
KeysOfRaw(jobs) == { jobs[i].title \o <<"|">> \o jobs[i].company : i \in 1..Len(jobs) }

\* existing_keys as search_all builds it from the loaded collection
KeysOf(jobs) == { deduplicate_key(jobs[i].title, jobs[i].company) : i \in 1..Len(jobs) }

\* mutant of FirstId: the + 1 is missing
FirstIdNoIncrement(jobs) ==
  IF jobs = <<>> THEN 100
  ELSE Max({ jobs[i].id : i \in 1..Len(jobs) })

\* max([j.get("id", 0) for j in existing], default=100) + 1
FirstId(jobs) ==
  IF jobs = <<>> THEN 100 + 1
  ELSE Max({ jobs[i].id : i \in 1..Len(jobs) }) + 1

\* mutant of Rejects: a score of exactly 70 is rejected too
RejectsAt70(score) == score <= 70

\* score < 70 rejects
Rejects(score) == score < 70

\* the record appended for an accepted candidate
NewJob(r, id, score, query, date) ==
  [ id |-> id,
    company |-> r.company,
    title |-> r.title,
    location |-> "Remote", salary |-> "TBD", remote |-> "Yes",
    link |-> r.link,
    score |-> score,
    reason |-> << "Found via Indeed search: '", query,
                  "'. Auto-scored based on title/company keywords." >>,
    discovered |-> date,
    source |-> "general",
    isNew |-> TRUE,
    status |-> "not-applied",
    notes |-> <<>> ]

\* mutant of MarkNew: a record stays new for two days after its discovery
MarkNewWithinTwoDays(jobs, date) ==
  [i \in 1..Len(jobs) |-> [jobs[i] EXCEPT !.isNew = (date - jobs[i].discovered <= 2)]]

\* for j in existing: j["isNew"] = j.get("discovered", "") == today
MarkNew(jobs, date) ==
  [i \in 1..Len(jobs) |-> [jobs[i] EXCEPT !.isNew = (jobs[i].discovered = date)]]

(***************************************************************************)
(* Publisher: json.dumps, re.sub, rebuild_dashboard.                       *)
(* A document is a sequence of tokens: a character, or a run of text that  *)
(* holds no quote, backslash, bracket or semicolon.  "QUOTE" is the double *)
(* quote and "BSLASH" the backslash.                                       *)
(***************************************************************************)
\* the concatenation of ss[lo], ..., ss[hi]
RECURSIVE FlattenRange(_, _, _)
FlattenRange(ss, lo, hi) ==
  IF lo > hi THEN <<>>
  ELSE IF lo = hi THEN ss[lo]
  ELSE LET mid == (lo + hi) \div 2
       IN  FlattenRange(ss, lo, mid) \o FlattenRange(ss, mid + 1, hi)

Flatten(ss) == FlattenRange(ss, 1, Len(ss))

DigitChars == << "0", "1", "2", "3", "4", "5", "6", "7", "8", "9" >>

\* the decimal digits of a natural number
RECURSIVE Digits(_)
Digits(n) ==
  IF n < 10 THEN << DigitChars[n + 1] >>
  ELSE Digits(n \div 10) \o << DigitChars[(n % 10) + 1] >>

\* json.dumps of one character of a string (ensure_ascii is on)
JsonEscape(c) ==
  CASE c = "QUOTE"  -> << "BSLASH", "QUOTE" >>
    [] c = "BSLASH" -> << "BSLASH", "BSLASH" >>
    [] c = "NL"     -> << "BSLASH", "n" >>
    [] c = "TAB"    -> << "BSLASH", "t" >>
    [] c = "CR"     -> << "BSLASH", "r" >>
    [] c = "BS"     -> << "BSLASH", "b" >>
    [] c = "FF"     -> << "BSLASH", "f" >>
    [] c = "u2013"  -> << "BSLASH", "u", "2", "0", "1", "3" >>
    [] OTHER        -> << c >>

\* json.dumps of a string given as characters
JsonString(s) ==
  << "QUOTE" >> \o Flatten([i \in 1..Len(s) |-> JsonEscape(s[i])]) \o << "QUOTE" >>

\* json.dumps of a string given as runs of plain text
JsonText(chunks) == << "QUOTE" >> \o chunks \o << "QUOTE" >>

\* json.dumps of one record, keys in the order of the dict
JsonRecord(j) ==
  << "{", "id: " >> \o Digits(j.id)
  \o << ", company: " >> \o JsonString(j.company)
  \o << ", title: " >> \o JsonString(j.title)
  \o << ", location: " >> \o JsonText(<< j.location >>)
  \o << ", salary: " >> \o JsonText(<< j.salary >>)
  \o << ", remote: " >> \o JsonText(<< j.remote >>)
  \o << ", link: " >> \o JsonText(<< j.link >>)
  \o << ", score: " >> \o Digits(j.score)
  \o << ", reason: " >> \o JsonText(j.reason)
  \o << ", discovered: " >> \o JsonText(<< "day " >> \o Digits(j.discovered))
  \o << ", source: " >> \o JsonText(<< j.source >>)
  \o << ", isNew: " >> \o << IF j.isNew THEN "true" ELSE "false" >>
  \o << ", status: " >> \o JsonText(<< j.status >>)
  \o << ", notes: " >> \o JsonString(j.notes)
  \o << "}" >>

RECURSIVE JsonItems(_)
JsonItems(jobs) ==
  IF Len(jobs) = 1 THEN JsonRecord(jobs[1])
  ELSE JsonRecord(Head(jobs)) \o << "," >> \o JsonItems(Tail(jobs))

\* json.dumps(jobs, indent=2)
json_dumps(jobs) ==
  IF jobs = <<>> THEN << "[", "]" >>
  ELSE << "[" >> \o JsonItems(jobs) \o << "]" >>

AsciiLetters ==
  { "a", "b", "c", "d", "e", "f", "g", "h", "i", "j", "k", "l", "m", "n",
    "o", "p", "q", "r", "s", "t", "u", "v", "w", "x", "y", "z" }
    \cup DOMAIN LowerMap

\* the escapes a replacement string may hold, besides the doubled backslash
TemplateEscapes ==
  [ a |-> "BEL", b |-> "BS", f |-> "FF", n |-> "NL", r |-> "CR", t |-> "TAB",
    v |-> "VT" ]

\* the number of backslashes that stand in a row right before position i
BackslashesBefore(t, i) ==
  (i - 1) - Max({ j \in 0..(i - 1) : j = 0 \/ t[j] # "BSLASH" })

\* position i of a replacement string holds the backslash that opens an escape
OpensEscape(t, i) ==
  t[i] = "BSLASH" /\ BackslashesBefore(t, i) % 2 = 0

\* what the escape opened at position i stands for; <<"error">> when re
\* rejects it (an ASCII letter it does not know, a group that does not exist,
\* nothing after the backslash)
EscapeText(t, i) ==
  IF i = Len(t) THEN << "error" >>
  ELSE LET e == t[i + 1]
       IN  CASE e = "BSLASH" -> << "BSLASH" >>
             [] e \in DOMAIN TemplateEscapes -> << TemplateEscapes[e] >>
             [] e \in AsciiLetters \/ e \in Range(DigitChars) -> << "error" >>
             [] OTHER -> << "BSLASH", e >>

\* re's processing of the backslashes of a replacement string: the text it
\* stands for, or ok = FALSE for an escape re rejects
ExpandTemplate(t) ==
  LET piece(i) ==
        IF OpensEscape(t, i) THEN EscapeText(t, i)
        ELSE IF i > 1 /\ OpensEscape(t, i - 1) THEN <<>>
        ELSE << t[i] >>
      bad == \E i \in 1..Len(t) : OpensEscape(t, i) /\ EscapeText(t, i) = << "error" >>
  IN  IF bad THEN [ok |-> FALSE, text |-> <<>>]
      ELSE [ok |-> TRUE, text |-> Flatten([i \in 1..Len(t) |-> piece(i)])]

Min(S) == CHOOSE x \in S : \A y \in S : x <= y

\* the positions at which "];" stands
Closings(text) ==
  { j \in 1..(Len(text) - 1) : text[j] = "]" /\ text[j + 1] = ";" }

\* the positions at which "const JOBS = [" stands
Openings(text) ==
  { i \in 1..(Len(text) - 1) : text[i] = "const JOBS = " /\ text[i + 1] = "[" }

\* the position after the match of  const JOBS = \[.*?\];  that starts at the
\* opening i, 0 when none does (.*? stops at the first "];")
MatchEnd(text, i) ==
  LET after == { j \in Closings(text) : j >= i + 2 }
  IN  IF after = {} THEN 0 ELSE Min(after) + 2

\* the matches re.sub replaces: left to right, none starting inside another
Matches(text) ==
  LET found == { i \in Openings(text) : MatchEnd(text, i) # 0 }
  IN  { i \in found : ~ \E k \in found : k < i /\ MatchEnd(text, k) > i }

\* re.sub(pattern, repl, text, flags=re.DOTALL), repl already expanded
re_sub(text, repl) ==
  LET matches == Matches(text)
      spans   == { << i, MatchEnd(text, i) >> : i \in matches }
      piece(i) ==
        IF i \in matches THEN repl
        ELSE IF \E sp \in spans : sp[1] < i /\ i < sp[2] THEN <<>>
        ELSE << text[i] >>
  IN  Flatten([i \in 1..Len(text) |-> piece(i)])

HasPlaceholder(text) == Matches(text) # {}

\* index.html as it can be before the first run
NoDocument == [exists |-> FALSE, text |-> <<>>]
Document(text) == [exists |-> TRUE, text |-> text]
InitDocuments ==
  << NoDocument,
     Document(<< "<html><script>", "const JOBS = ", "[", "]", ";", "render()</script></html>" >>),
     Document(<< "<html><script>", "render()</script></html>" >>) >>

(***************************************************************************)
(* The scoring check: calculate_fit_score applied to chosen arguments.     *)
(***************************************************************************)
ScoreTitles ==
  { <<"V", "P", " ", "F", "i", "n", "a", "n", "c", "e", " ", "T", "r", "a", "n", "s", "f", "o", "r", "m", "a", "t", "i", "o", "n">>,
    <<"A", "c", "c", "o", "u", "n", "t", "i", "n", "g", " ", "C", "l", "e", "r", "k">>,
    <<"C", "F", "O", " ", "V", "P", " ", "H", "e", "a", "d", " ", "C", "h", "i", "e", "f", " ", "F", "i", "n", "a", "n", "c", "e">>,
    <<"R", "e", "m", "o", "t", "e", " ", "C", "l", "e", "r", "k">>,
    <<"H", "e", "a", "d", " ", "V", "P">>,
    <<"V", "P", "u2013", "C", "P", "O">>,
    <<>> }

ScoreCompanies ==
  { <<"S", "t", "r", "i", "p", "e">>,
    <<"U", "n", "k", "n", "o", "w", "n">>,
    <<"P", "a", "y", "P", "a", "l", " ", "B", "L", "O", "C", "K">>,
    <<"a", "c", "m", "e">> }

ScoreLocations ==
  { <<>>, <<"R", "e", "m", "o", "t", "e">>, <<"N", "Y">> }

NoArg == [title |-> <<>>, company |-> <<>>, location |-> <<>>]

(***************************************************************************)
(* Initial states.                                                         *)
(***************************************************************************)
NoMerge == [outcome |-> "none", key |-> <<>>, score |-> -1]

\* the state of a process that has not started search_all
Idle ==
  /\ pc = "idle"
  /\ existing = <<>>
  /\ existing_keys = {}
  /\ new_jobs = <<>>
  /\ next_id = 0
  /\ today = 0
  /\ qi = 0
  /\ results = <<>>
  /\ all_jobs = <<>>
  /\ new_count = -1
  /\ raised = "none"
  /\ rebuilt = "none"
  /\ pushed = "none"
  /\ warned = FALSE
  /\ refJobs = <<>>
  /\ readOk = FALSE
  /\ lastMerge = NoMerge

\* the files before the first run: the store and the document
InitFiles ==
  { << StoreAbsent, InitDocuments[1] >>,
    << StoreAbsent, InitDocuments[2] >>,
    << StoreAbsent, InitDocuments[3] >>,
    << StoreList(<<>>), InitDocuments[2] >>,
    << StoreList(<< HandRecord >>), InitDocuments[2] >>,
    << StoreObject, InitDocuments[2] >> }

NoFeed == [q \in 1..NumQueries |-> <<>>]

Init ==
  /\ clock = 1
  /\ \E files \in InitFiles : store = files[1] /\ html = files[2]
  /\ Idle
  /\ store0 = store
  /\ html0 = html
  /\ runs = 0
  /\ feed = NoFeed
  /\ prevToday = 0
  /\ arg = NoArg
  /\ ret = -1

\* the replay check: the feed answers every query the same way in every run
InitReplay ==
  /\ clock = 1
  /\ store \in { StoreAbsent, StoreList(<< HandRecord >>) }
  /\ html = InitDocuments[2]
  /\ Idle
  /\ store0 = store
  /\ html0 = html
  /\ runs = 0
  /\ feed \in [1..NumQueries -> Responses]
  /\ prevToday = 0
  /\ arg = NoArg
  /\ ret = -1

InitScore ==
  /\ clock = 1
  /\ store = StoreAbsent
  /\ html = NoDocument
  /\ Idle
  /\ store0 = store
  /\ html0 = html
  /\ runs = 0
  /\ feed = NoFeed
  /\ prevToday = 0
  /\ arg \in [title : ScoreTitles, company : ScoreCompanies, location : ScoreLocations]
  /\ ret = -1

(***************************************************************************)
(* search_all.                                                             *)
(***************************************************************************)
\* the body of  for r in results:  keys, jobs and nid are existing_keys,
\* new_jobs and next_id before it, and the value is what they are after it
MergeOne(r, keys, jobs, nid, query, date) ==
  LET key == deduplicate_key(r.title, r.company)
  IN  IF key \in keys
      THEN [keys |-> keys, jobs |-> jobs, nid |-> nid,
            outcome |-> "duplicate", key |-> key, score |-> -1]
      ELSE LET score == calculate_fit_score(r.title, r.company, <<>>)
           IN  IF Rejects(score)
               THEN [keys |-> keys \cup {key}, jobs |-> jobs, nid |-> nid,
                     outcome |-> "rejected", key |-> key, score |-> score]
               ELSE [keys |-> keys \cup {key},
                     jobs |-> Append(jobs, NewJob(r, nid, score, query, date)),
                     nid |-> nid + 1,
                     outcome |-> "accepted", key |-> key, score |-> score]

\* the merge of section 4.3 of the specification: a candidate is skipped when
\* its key is that of a loaded record or of a record accepted earlier in the run
ReferenceMergeOne(r, loaded, jobs, query, date) ==
  LET key == deduplicate_key(r.title, r.company)
      score == calculate_fit_score(r.title, r.company, <<>>)
  IN  IF key \in KeysOf(loaded) \cup KeysOf(jobs) \/ score < 70
      THEN jobs
      ELSE Append(jobs, NewJob(r, FirstId(loaded) + Len(jobs), score, query, date))

\* main's banner, then search_all up to its loop: load, key set, next_id,
\* today; oks are the outcomes the read can have
StartRunWith(oks) ==
  /\ pc = "idle"
  /\ runs < MaxRuns
  /\ runs' = runs + 1
  /\ \E ok \in oks :
       LET loaded == load_existing_data(ok)
       IN  /\ readOk' = ok
           /\ IF loaded.type = "dict"
              THEN \* iterating a dict yields its keys: j.get raises
                   /\ pc' = "crashed"
                   /\ raised' = "AttributeError in search_all"
                   /\ UNCHANGED << existing, existing_keys, next_id, today, qi >>
              ELSE /\ pc' = "search"
                   /\ existing' = loaded.recs
                   /\ existing_keys' = KeysOf(loaded.recs)
                   /\ next_id' = FirstId(loaded.recs)
                   /\ today' = clock
                   /\ qi' = 1
                   /\ UNCHANGED raised
  /\ store0' = store
  /\ UNCHANGED << clock, store, html, new_jobs, results, all_jobs, new_count,
                  rebuilt, pushed, warned, refJobs, html0, lastMerge, feed,
                  prevToday, arg, ret >>

\* one iteration of  for i, query in enumerate(SEARCH_QUERIES, 1):  up to the
\* return of search_indeed_rss; oks are the outcomes of the request and
\* responses what the feed can answer
FetchQueryFrom(oks, responses) ==
  /\ pc = "search"
  /\ qi <= NumQueries
  /\ \E ok \in oks :
       \E response \in (IF ok THEN responses ELSE {<<>>}) :
         /\ results' = search_indeed_rss(ok, response)
         /\ IF response = <<>>
            THEN pc' = "search" /\ qi' = qi + 1
            ELSE pc' = "merge" /\ qi' = qi
  /\ lastMerge' = NoMerge
  /\ UNCHANGED << clock, store, html, existing, existing_keys, new_jobs, next_id,
                  today, all_jobs, new_count, raised, rebuilt, pushed, warned,
                  refJobs, store0, readOk, html0, runs, feed, prevToday, arg, ret >>

\* one iteration of  for r in results:
MergeCandidate ==
  /\ pc = "merge"
  /\ LET r == Head(results)
         m == MergeOne(r, existing_keys, new_jobs, next_id, SEARCH_QUERIES[qi], today)
     IN  /\ existing_keys' = m.keys
         /\ new_jobs' = m.jobs
         /\ next_id' = m.nid
         /\ lastMerge' = [outcome |-> m.outcome, key |-> m.key, score |-> m.score]
         /\ refJobs' = ReferenceMergeOne(r, existing, refJobs, SEARCH_QUERIES[qi], today)
  /\ results' = Tail(results)
  /\ IF Tail(results) = <<>>
     THEN pc' = "search" /\ qi' = qi + 1
     ELSE pc' = "merge" /\ qi' = qi
  /\ UNCHANGED << clock, store, html, existing, today, all_jobs, new_count, raised,
                  rebuilt, pushed, warned, store0, readOk, html0, runs, feed,
                  prevToday, arg, ret >>

\* what open(DATA_PATH, "w") and json.dump can do: write the file, fail to
\* open it, or fail after open has truncated it
WriteOutcomes == { "written", "open fails", "dump fails" }

\* save_data(jobs): the file after it
save_data(jobs, outcome) ==
  CASE outcome = "written"    -> StoreList(jobs)
    [] outcome = "open fails" -> store
    [] outcome = "dump fails" -> StoreGarbage

\* search_all after its loop: isNew, all_jobs, save_data, return
FinishSearchWith(outcomes) ==
  /\ pc = "search"
  /\ qi > NumQueries
  /\ existing' = MarkNew(existing, today)
  /\ \E outcome \in outcomes :
       /\ store' = save_data(existing' \o new_jobs, outcome)
       /\ IF outcome = "written"
          THEN /\ all_jobs' = existing' \o new_jobs
               /\ new_count' = Len(new_jobs)
               /\ pc' = "saved"
               /\ UNCHANGED raised
          ELSE /\ pc' = "crashed"
               /\ raised' = "OSError in save_data"
               /\ UNCHANGED << all_jobs, new_count >>
  /\ lastMerge' = NoMerge
  /\ UNCHANGED << clock, html, existing_keys, new_jobs, next_id, today, qi, results,
                  rebuilt, pushed, warned, refJobs, store0, readOk, html0,
                  runs, feed, prevToday, arg, ret >>

(***************************************************************************)
(* rebuild_dashboard, git_push, the end of main.                           *)
(***************************************************************************)
\* rebuild_dashboard(jobs) on the document doc; readable and writable say
\* whether the two open calls succeed.  The value: the document after it,
\* what it returned, whether it logged its WARNING, what it raised
rebuild_dashboard(jobs, doc, readable, writable) ==
  IF ~doc.exists
  THEN [doc |-> doc, returned |-> "False", warned |-> FALSE, raised |-> "none"]
  ELSE IF ~readable
  THEN [doc |-> doc, returned |-> "none", warned |-> FALSE,
        raised |-> "OSError in rebuild_dashboard (read)"]
  ELSE LET replacement == << "const JOBS = " >> \o json_dumps(jobs) \o << ";" >>
           template    == ExpandTemplate(replacement)
           new_html    == re_sub(doc.text, template.text)
       IN  IF ~template.ok
           THEN [doc |-> doc, returned |-> "none", warned |-> FALSE,
                 raised |-> "re.error in rebuild_dashboard"]
           ELSE IF new_html = doc.text
           THEN [doc |-> doc, returned |-> "False", warned |-> TRUE, raised |-> "none"]
           ELSE IF ~writable
           THEN [doc |-> doc, returned |-> "none", warned |-> FALSE,
                 raised |-> "OSError in rebuild_dashboard (write)"]
           ELSE [doc |-> Document(new_html), returned |-> "True", warned |-> FALSE,
                 raised |-> "none"]

\* main: rebuild_dashboard(all_jobs); access are the outcomes the two open
\* calls can have, << the read succeeds, the write succeeds >>
RebuildWith(access) ==
  /\ pc = "saved"
  /\ \E a \in access :
       LET out == rebuild_dashboard(all_jobs, html, a[1], a[2])
       IN  /\ html' = out.doc
           /\ rebuilt' = out.returned
           /\ warned' = out.warned
           /\ raised' = out.raised
           /\ pc' = IF out.raised = "none" THEN "rebuilt" ELSE "crashed"
  /\ html0' = html
  /\ UNCHANGED << clock, store, existing, existing_keys, new_jobs, next_id, today,
                  qi, results, all_jobs, new_count, pushed, refJobs, store0, readOk,
                  lastMerge, runs, feed, prevToday, arg, ret >>

\* what the git commands can do: report a clean tree, all succeed, or one of
\* them fail or raise
GitOutcomes == { "clean", "pushed", "failed" }

\* git_push(): every failure is caught
git_push(outcome) == IF outcome = "failed" THEN "False" ELSE "True"

\* main: git_push(), then the DONE banner
GitPush ==
  /\ pc = "rebuilt"
  /\ \E outcome \in GitOutcomes : pushed' = git_push(outcome)
  /\ pc' = "done"
  /\ UNCHANGED << clock, store, html, existing, existing_keys, new_jobs, next_id,
                  today, qi, results, all_jobs, new_count, raised, rebuilt, warned,
                  refJobs, store0, readOk, html0, lastMerge, runs, feed, prevToday,
                  arg, ret >>

\* the process exits; the next invocation starts from a fresh process
EndRun ==
  /\ pc \in {"done", "crashed"}
  /\ pc' = "idle"
  /\ existing' = <<>>
  /\ existing_keys' = {}
  /\ new_jobs' = <<>>
  /\ next_id' = 0
  /\ today' = 0
  /\ qi' = 0
  /\ results' = <<>>
  /\ all_jobs' = <<>>
  /\ new_count' = -1
  /\ raised' = "none"
  /\ rebuilt' = "none"
  /\ pushed' = "none"
  /\ warned' = FALSE
  /\ refJobs' = <<>>
  /\ readOk' = FALSE
  /\ lastMerge' = NoMerge
  /\ prevToday' = today
  /\ store0' = store
  /\ html0' = html
  /\ UNCHANGED << clock, store, html, runs, feed, arg, ret >>

\* midnight passes between two invocations
Tick ==
  /\ pc = "idle"
  /\ clock < MaxDay
  /\ clock' = clock + 1
  /\ UNCHANGED << store, html, pc, existing, existing_keys, new_jobs, next_id,
                  today, qi, results, all_jobs, new_count, raised, rebuilt, pushed,
                  warned, refJobs, store0, readOk, html0, lastMerge, runs, feed,
                  prevToday, arg, ret >>

StartRun == StartRunWith(ReadOutcomes)

FetchQuery == FetchQueryFrom(BOOLEAN, Responses)

FinishSearch == FinishSearchWith(WriteOutcomes)

Rebuild == RebuildWith(BOOLEAN \X BOOLEAN)

Next ==
  \/ StartRun
  \/ FetchQuery
  \/ MergeCandidate
  \/ FinishSearch
  \/ Rebuild
  \/ GitPush
  \/ EndRun
  \/ Tick

Spec == Init /\ [][Next]_vars

\* the replay check: every read and write succeeds and the feed answers as in
\* feed
ReplayStart == StartRunWith({TRUE})

ReplayFetch == FetchQueryFrom({TRUE}, {feed[qi]})

ReplayFinish == FinishSearchWith({"written"})

ReplayRebuild == RebuildWith({<< TRUE, TRUE >>})

NextReplay ==
  \/ ReplayStart
  \/ ReplayFetch
  \/ MergeCandidate
  \/ ReplayFinish
  \/ ReplayRebuild
  \/ GitPush
  \/ EndRun
  \/ Tick

SpecReplay == InitReplay /\ [][NextReplay]_vars

\* the scoring check: one call of calculate_fit_score
ScoreCall ==
  /\ ret = -1
  /\ ret' = calculate_fit_score(arg.title, arg.company, arg.location)
  /\ UNCHANGED << clock, store, html, pc, existing, existing_keys, new_jobs,
                  next_id, today, qi, results, all_jobs, new_count, raised,
                  rebuilt, pushed, warned, refJobs, store0, readOk, html0,
                  lastMerge, runs, feed, prevToday, arg >>

SpecScore == InitScore /\ [][ScoreCall]_vars

(***************************************************************************)
(* Properties.                                                             *)
(***************************************************************************)
\* the dedup key as the data model states it: the lowercased, trimmed title,
\* "|", the lowercased, trimmed company
DedupKey(j) == strip(lower(j.title)) \o <<"|">> \o strip(lower(j.company))

DistinctKeys(jobs) ==
  \A i, k \in 1..Len(jobs) : i # k => DedupKey(jobs[i]) # DedupKey(jobs[k])

DistinctIds(jobs) ==
  \A i, k \in 1..Len(jobs) : i # k => jobs[i].id # jobs[k].id

\* search_all has returned in this run
Returned == new_count # -1

\* C1, part 1: no two records of the persisted collection, nor of the
\* collection a run is building, have the same dedup key
C1_DistinctKeys ==
  /\ store.kind = "list" => DistinctKeys(store.recs)
  /\ pc \in {"search", "merge"} => DistinctKeys(existing \o new_jobs)

\* C1, part 2: a candidate whose key is that of a record of the collection
\* (loaded, or added earlier in the run) is dropped, and the records are kept
C1_DropOnCollision ==
  (pc = "merge" /\ \E i \in 1..Len(existing \o new_jobs) :
                      DedupKey((existing \o new_jobs)[i]) = DedupKey(Head(results)))
    => (new_jobs' = new_jobs /\ existing' = existing)

\* C1: after any sequence of runs no two records of the persisted collection
\* have the same dedup key (lowercased, trimmed title | lowercased, trimmed
\* company); a candidate whose key collides with a record of the collection is
\* dropped and the first-seen record is kept unchanged
C1_UniqueDedupKey == [](C1_DistinctKeys) /\ [][C1_DropOnCollision]_vars

\* C1 witness: in a second run a candidate was dropped whose key is that of a
\* record accepted earlier in the run, next to a loaded record, though its
\* title is written differently
C1_Witness ==
  /\ runs = 2
  /\ existing # <<>>
  /\ lastMerge.outcome = "duplicate"
  /\ \E i \in 1..Len(new_jobs) :
       /\ DedupKey(new_jobs[i]) = lastMerge.key
       /\ new_jobs[i].title # lower(new_jobs[i].title)

\* the highest id of the loaded collection, 100 when it is empty
BaseId(jobs) ==
  IF jobs = <<>> THEN 100 ELSE Max({ jobs[i].id : i \in 1..Len(jobs) })

\* C3: within a run the ids of the accepted candidates start at (the highest
\* loaded id, or 100) + 1 and grow by exactly 1 in acceptance order; the ids
\* of the collection being built and of the persisted collection are pairwise
\* distinct
C3_SequentialIds ==
  /\ \A i \in 1..Len(new_jobs) : new_jobs[i].id = BaseId(existing) + i
  /\ DistinctIds(existing \o new_jobs)
  /\ store.kind = "list" => DistinctIds(store.recs)

\* C3 witness: a run that loaded records has accepted two candidates
C3_Witness ==
  /\ existing # <<>>
  /\ Len(new_jobs) >= 2
  /\ Returned

\* C4, the step: a candidate whose key is not in the key set is appended,
\* with its score, when the score is at least 70, and not appended otherwise
C4_AcceptIffAtLeast70 ==
  (pc = "merge" /\ DedupKey(Head(results)) \notin existing_keys)
    => LET r == Head(results)
           score == calculate_fit_score(r.title, r.company, <<>>)
       IN  IF score >= 70
           THEN /\ Len(new_jobs') = Len(new_jobs) + 1
                /\ SubSeq(new_jobs', 1, Len(new_jobs)) = new_jobs
                /\ new_jobs'[Len(new_jobs')].title = r.title
                /\ new_jobs'[Len(new_jobs')].company = r.company
                /\ new_jobs'[Len(new_jobs')].score = score
           ELSE new_jobs' = new_jobs

\* C4, the state: every record search_all has added is scored in 70..100, a
\* candidate scored 69 was rejected and one scored 70 accepted
C4_AddedScores ==
  /\ \A i \in 1..Len(new_jobs) : new_jobs[i].score \in 70..100
  /\ lastMerge.score = 69 => lastMerge.outcome = "rejected"
  /\ lastMerge.score = 70 => lastMerge.outcome = "accepted"

C5_Claim_RecordsPreserved ==
  \A i \in 1..Len(store0.recs) :
    /\ store.kind = "list"
    /\ i <= Len(store.recs)
    /\ store.recs[i].id = store0.recs[i].id
    /\ store.recs[i].status = store0.recs[i].status
    /\ store.recs[i].notes = store0.recs[i].notes
    /\ store.recs[i].discovered = store0.recs[i].discovered

\* rebuild_dashboard has ended in this run, by a return or by an exception
RebuildEnded ==
  \/ rebuilt # "none"
  \/ raised \in { "OSError in rebuild_dashboard (read)",
                  "re.error in rebuild_dashboard",
                  "OSError in rebuild_dashboard (write)" }

\* C6 as claimed: a run crashes only when writing the persisted collection
\* fails; every other failure is absorbed
C6_Claim_OnlySaveCrashes ==
  pc = "crashed" => raised = "OSError in save_data"

C2_Idempotent ==
  (runs >= 2 /\ Returned) =>
    /\ new_count = 0
    /\ store.recs = all_jobs
    /\ Len(all_jobs) = Len(store0.recs)
    /\ \A i \in 1..Len(all_jobs) :
         [all_jobs[i] EXCEPT !.isNew = store0.recs[i].isNew] = store0.recs[i]
    /\ today = prevToday => all_jobs = store0.recs

\* C2 witness: a second run on another day has returned with count 0; the
\* feed held a candidate scored under 70 and the collection a record scored 70
C2_Witness ==
  /\ runs = 2
  /\ Returned
  /\ new_count = 0
  /\ today # prevToday
  /\ \E q \in 1..NumQueries : \E i \in 1..Len(feed[q]) :
       LET r == ParseItem(feed[q][i])
       IN  calculate_fit_score(r.title, r.company, <<>>) < 70
  /\ \E i \in 1..Len(all_jobs) : all_jobs[i].score = 70

\* the keywords that occur in the lowercased title
MatchedKeywords(title) ==
  { i \in 1..Len(TITLE_KEYWORDS) : Contains(TITLE_KEYWORDS[i].kw, lower(title)) }

RECURSIVE SumOfWeights(_)
SumOfWeights(S) ==
  IF S = {} THEN 0
  ELSE LET i == CHOOSE x \in S : TRUE
       IN  TITLE_KEYWORDS[i].pts + SumOfWeights(S \ {i})

\* the score as the scorer's contract states it
ContractScore(title, company, location) ==
  LET sum == 40
             + SumOfWeights(MatchedKeywords(title))
             + (IF \E i \in 1..Len(TARGET_COMPANIES) :
                     Contains(lower(TARGET_COMPANIES[i]), lower(company))
                THEN 8 ELSE 0)
             + (IF Contains(RemoteWord, lower(location)) \/ Contains(RemoteWord, lower(title))
                THEN 5 ELSE 0)
  IN  IF sum > 100 THEN 100 ELSE sum

ExampleAccepted ==
  [ title |-> <<"V", "P", " ", "F", "i", "n", "a", "n", "c", "e", " ", "T", "r", "a", "n", "s", "f", "o", "r", "m", "a", "t", "i", "o", "n">>,
    company |-> <<"S", "t", "r", "i", "p", "e">>,
    location |-> <<>> ]

ExampleRejected ==
  [ title |-> <<"A", "c", "c", "o", "u", "n", "t", "i", "n", "g", " ", "C", "l", "e", "r", "k">>,
    company |-> <<"U", "n", "k", "n", "o", "w", "n">>,
    location |-> <<>> ]

\* C8: the result of calculate_fit_score is an integer in 0..100 and equals
\* min(100, 40 + the weights of the keywords in the lowercased title + 8 once
\* when a target company occurs in the company + 5 when "remote" occurs in the
\* location or the title); ("VP Finance Transformation", "Stripe", "") scores
\* 85 and ("Accounting Clerk", "Unknown", "") scores 46
C8_ScoreContract ==
  ret # -1 =>
    /\ ret \in 0..100
    /\ ret = ContractScore(arg.title, arg.company, arg.location)
    /\ arg = ExampleAccepted => ret = 85
    /\ arg = ExampleRejected => ret = 46

\* C8 witness: a call whose company holds two target companies, whose title
\* holds keywords and whose location holds "remote" has returned
C8_Witness ==
  /\ ret # -1
  /\ Cardinality({ i \in 1..Len(TARGET_COMPANIES) :
                     Contains(lower(TARGET_COMPANIES[i]), lower(arg.company)) }) = 2
  /\ Cardinality(MatchedKeywords(arg.title)) >= 2
  /\ Contains(RemoteWord, lower(arg.location))
  /\ ret < 100

\* C9 as claimed: a candidate is skipped as a duplicate exactly when its key is
\* that of a loaded record or of a candidate accepted earlier in the run;
\* equivalently, the records search_all appends are those appended by the
\* reference merge, whose key set grows only with accepted candidates
C9_Claim_SkipsOnlyAccepted == new_jobs = refJobs

\* the document with every placeholder region replaced by the serialization
\* of jobs, as written by json.dumps
Spliced(text, jobs) ==
  re_sub(text, << "const JOBS = " >> \o json_dumps(jobs) \o << ";" >>)

\* C10 as claimed, for a document that can be opened: without the placeholder
\* rebuild_dashboard leaves the document as it is, logs its warning, returns
\* False and raises nothing; with it, the document afterwards is the document
\* before with the placeholder region holding the serialization of the
\* collection
C10_Claim_Rebuild ==
  ( /\ RebuildEnded
    /\ html0.exists
    /\ raised \notin { "OSError in rebuild_dashboard (read)",
                       "OSError in rebuild_dashboard (write)" } )
    => IF ~HasPlaceholder(html0.text)
       THEN /\ html = html0
            /\ warned
            /\ rebuilt = "False"
            /\ raised = "none"
       ELSE html.text = Spliced(html0.text, all_jobs)

====
